---- MODULE Spec2Model ----
(***************************************************************************)
(* A model of fk-result (src/src/index.ts): the Result type, its two       *)
(* classes ResultOk and ResultErr, and the namespace functions Result.all, *)
(* Result.any, Result.wrap and Result.fold.                                *)
(*                                                                         *)
(* Results are objects with identity: the heap is the sequence of every    *)
(* Result constructed so far and a reference is an index into it, so that  *)
(* "returns this" and "returns a new Result" are different outcomes.       *)
(* Every operation is evaluated on a machine record                        *)
(*   [heap, calls, raised, ret, exc]                                       *)
(* holding the heap, the log of the caller-supplied functions invoked so   *)
(* far, and how the evaluation ended (a returned value or a raised one).   *)
(***************************************************************************)
EXTENDS Integers, Sequences, FiniteSets, TLC

\* Payload numbers are 0..MaxVal.
MaxVal == 1
\* An operation starts only while at most MaxHeap Results have been constructed.
MaxHeap == 2
\* Lists handed to all, any and fold have at most MaxLen elements.
MaxLen == 2

\* fold, which reads no Result of its caller, starts only while at most
\* MaxFoldHeap Results have been constructed.
MaxFoldHeap == 1

Vals == 0..MaxVal
\* Messages handed to expect; "" is the message of new Error(undefined).
Msgs == {"", "must not fail"}

---------------------------------------------------------------------------
(* Values. Every value has the same record shape, so any two compare.      *)

Mk(t, n, m, a) == [t |-> t, n |-> n, m |-> m, a |-> a]
Undefined == Mk("undefined", 0, "", <<>>)
Num(n) == Mk("number", n, "", <<>>)
Str(s) == Mk("string", 0, s, <<>>)
Bool(b) == Mk("boolean", IF b THEN 1 ELSE 0, "", <<>>)
\* A reference to the Result at heap index p.
Ref(p) == Mk("Result", p, "", <<>>)
\* A JavaScript array of values.
Arr(s) == Mk("Array", 0, "", s)
\* new Error(msg): its message is "" when msg is undefined.
NewError(msg) == Mk("Error", 0, IF msg = Undefined THEN "" ELSE msg.m, <<>>)

Nums == {Num(n) : n \in Vals}

---------------------------------------------------------------------------
(* The machine record and the ways an evaluation step ends.                *)

Start(h) == [heap |-> h, calls |-> <<>>, raised |-> FALSE, ret |-> Undefined, exc |-> Undefined]
Return(m, v) == [m EXCEPT !.raised = FALSE, !.ret = v, !.exc = Undefined]
Throw(m, e) == [m EXCEPT !.raised = TRUE, !.ret = Undefined, !.exc = e]

\* new ResultOk(val): val is set, isOk = true, isErr = false; it has no err.
ResultOk(val) == [cls |-> "ResultOk", isOk |-> TRUE, isErr |-> FALSE, val |-> val, err |-> Undefined]
\* new ResultErr(err): err is set, isOk = false, isErr = true; it has no val.
ResultErr(err) == [cls |-> "ResultErr", isOk |-> FALSE, isErr |-> TRUE, val |-> Undefined, err |-> err]

New(m, obj) == Return([m EXCEPT !.heap = Append(@, obj)], Ref(Len(m.heap) + 1))
Ok(m, val) == New(m, ResultOk(val))
Err(m, err) == New(m, ResultErr(err))

---------------------------------------------------------------------------
(* Caller-supplied functions. A callback is [name, tbl, extra]: tbl gives, *)
(* for each argument, what the function does (its behaviour [b, v]):       *)
(*   "ret"      return v             "throw"    raise v                    *)
(*   "arg"      return the argument  "ok"/"err" return a new Ok(v)/Err(v)  *)
(*   "throwOk"/"throwErr"            raise a new Ok(v)/Err(v)              *)
(* extra holds the further arguments a closure passes on (fold).           *)

Beh(b, v) == [b |-> b, v |-> v]
Key(v) == IF v.t = "number" /\ v.n \in Vals THEN v.n ELSE 0

Invoke(m, name, beh, args) ==
  LET made == IF beh.b \in {"ok", "throwOk"} THEN Ok(m, beh.v)
              ELSE IF beh.b \in {"err", "throwErr"} THEN Err(m, beh.v)
              ELSE m
      v == IF beh.b \in {"ret", "throw"} THEN beh.v
           ELSE IF beh.b = "arg" THEN args[1]
           ELSE made.ret
      out == IF beh.b \in {"throw", "throwOk", "throwErr"} THEN "throw" ELSE "return"
      logged == [made EXCEPT !.calls = Append(@, [fn |-> name, args |-> args, out |-> out, v |-> v])]
  IN IF out = "throw" THEN Throw(logged, v) ELSE Return(logged, v)

Call(m, fn, arg) == Invoke(m, fn.name, fn.tbl[Key(arg)], <<arg>> \o fn.extra)

---------------------------------------------------------------------------
(* class ResultOk. this is the heap index of the receiver; a method gets   *)
(* every argument the caller passes, also those its body does not read.    *)

ResultOk_isOkAnd(m, this, fn) == Call(m, fn, m.heap[this].val)
ResultOk_isErrAnd(m, this, fn) == Return(m, Bool(FALSE))

ResultOk_unwrap(m, this) == Return(m, m.heap[this].val)
ResultOk_expect(m, this, msg) == Return(m, m.heap[this].val)
ResultOk_unwrapOr(m, this, def) == Return(m, m.heap[this].val)

ResultOk_match(m, this, onOk, onErr) == Call(m, onOk, m.heap[this].val)
ResultOk_union(m, this) == Return(m, m.heap[this].val)

ResultOk_map(m, this, fn) ==
  LET c == Call(m, fn, m.heap[this].val)
  IN IF c.raised THEN c ELSE Ok(c, c.ret)
\* A mapErr that refuses an Ok receiver.
ResultOk_mapErr_throws(m, this, fn) == Throw(m, NewError(Str("not an Err")))
ResultOk_mapErr(m, this, fn) == Return(m, Ref(this))

\* A bind that wraps what fn returns instead of returning it.
ResultOk_bind_nested(m, this, fn) ==
  LET c == Call(m, fn, m.heap[this].val)
  IN IF c.raised THEN c ELSE Ok(c, c.ret)
ResultOk_bind(m, this, fn) == Call(m, fn, m.heap[this].val)
ResultOk_bindErr(m, this, fn) == Return(m, Ref(this))

\* A tap that stores what fn returns in the receiver.
ResultOk_tap_assigns(m, this, fn) ==
  LET c == Call(m, fn, m.heap[this].val)
  IN IF c.raised THEN c
     ELSE Return([c EXCEPT !.heap[this].val = c.ret], Ref(this))
ResultOk_tap(m, this, fn) ==
  LET c == Call(m, fn, m.heap[this].val)
  IN IF c.raised THEN c ELSE Return(c, Ref(this))
ResultOk_tapErr(m, this, fn) == Return(m, Ref(this))

---------------------------------------------------------------------------
(* class ResultErr.                                                        *)

ResultErr_isOkAnd(m, this, fn) == Return(m, Bool(FALSE))
ResultErr_isErrAnd(m, this, fn) == Call(m, fn, m.heap[this].err)

ResultErr_unwrap(m, this) == Throw(m, m.heap[this].err)
\* An expect that raises the held error, as unwrap does.
ResultErr_expect_payload(m, this, msg) == Throw(m, m.heap[this].err)
ResultErr_expect(m, this, msg) == Throw(m, NewError(msg))
ResultErr_unwrapOr(m, this, def) == Return(m, def)

\* A match that dispatches an Err to onOk.
ResultErr_match_onOk(m, this, onOk, onErr) == Call(m, onOk, m.heap[this].err)
ResultErr_match(m, this, onOk, onErr) == Call(m, onErr, m.heap[this].err)
ResultErr_union(m, this) == Return(m, m.heap[this].err)

\* A map that runs fn on an Err too.
ResultErr_map_calls(m, this, fn) ==
  LET c == Call(m, fn, m.heap[this].err)
  IN IF c.raised THEN c ELSE Return(c, Ref(this))
ResultErr_map(m, this, fn) == Return(m, Ref(this))
ResultErr_mapErr(m, this, fn) ==
  LET c == Call(m, fn, m.heap[this].err)
  IN IF c.raised THEN c ELSE Err(c, c.ret)

ResultErr_bind(m, this, fn) == Return(m, Ref(this))
ResultErr_bindErr(m, this, fn) == Call(m, fn, m.heap[this].err)

ResultErr_tap(m, this, fn) == Return(m, Ref(this))
ResultErr_tapErr(m, this, fn) ==
  LET c == Call(m, fn, m.heap[this].err)
  IN IF c.raised THEN c ELSE Return(c, Ref(this))

---------------------------------------------------------------------------
(* Method calls r.method(...): dispatch on the receiver's class.           *)

IsOkObj(m, this) == m.heap[this].cls = "ResultOk"

isOkAnd(m, this, fn) == IF IsOkObj(m, this) THEN ResultOk_isOkAnd(m, this, fn) ELSE ResultErr_isOkAnd(m, this, fn)
isErrAnd(m, this, fn) == IF IsOkObj(m, this) THEN ResultOk_isErrAnd(m, this, fn) ELSE ResultErr_isErrAnd(m, this, fn)
unwrap(m, this) == IF IsOkObj(m, this) THEN ResultOk_unwrap(m, this) ELSE ResultErr_unwrap(m, this)
expect(m, this, msg) == IF IsOkObj(m, this) THEN ResultOk_expect(m, this, msg) ELSE ResultErr_expect(m, this, msg)
unwrapOr(m, this, def) == IF IsOkObj(m, this) THEN ResultOk_unwrapOr(m, this, def) ELSE ResultErr_unwrapOr(m, this, def)
match(m, this, onOk, onErr) == IF IsOkObj(m, this) THEN ResultOk_match(m, this, onOk, onErr) ELSE ResultErr_match(m, this, onOk, onErr)
union(m, this) == IF IsOkObj(m, this) THEN ResultOk_union(m, this) ELSE ResultErr_union(m, this)
map(m, this, fn) == IF IsOkObj(m, this) THEN ResultOk_map(m, this, fn) ELSE ResultErr_map(m, this, fn)
mapErr(m, this, fn) == IF IsOkObj(m, this) THEN ResultOk_mapErr(m, this, fn) ELSE ResultErr_mapErr(m, this, fn)
bind(m, this, fn) == IF IsOkObj(m, this) THEN ResultOk_bind(m, this, fn) ELSE ResultErr_bind(m, this, fn)
bindErr(m, this, fn) == IF IsOkObj(m, this) THEN ResultOk_bindErr(m, this, fn) ELSE ResultErr_bindErr(m, this, fn)
tap(m, this, fn) == IF IsOkObj(m, this) THEN ResultOk_tap(m, this, fn) ELSE ResultErr_tap(m, this, fn)
tapErr(m, this, fn) == IF IsOkObj(m, this) THEN ResultOk_tapErr(m, this, fn) ELSE ResultErr_tapErr(m, this, fn)

---------------------------------------------------------------------------
(* namespace Result.                                                       *)

\* An all that goes on after an Err and returns the last one.
RECURSIVE allFrom_lastErr(_, _, _, _)
allFrom_lastErr(m, results, i, vals) ==
  IF i > Len(results) THEN Ok(m, Arr(vals))
  ELSE LET result == m.heap[results[i].n]
           later == {j \in (i + 1)..Len(results) : m.heap[results[j].n].isErr}
       IN IF result.isErr /\ later = {} THEN Return(m, results[i])
          ELSE IF result.isErr THEN allFrom_lastErr(m, results, i + 1, vals)
          ELSE allFrom_lastErr(m, results, i + 1, Append(vals, result.val))
\* Result.all: the loop from element i on, vals holding the values pushed so far.
RECURSIVE allFrom(_, _, _, _)
allFrom(m, results, i, vals) ==
  IF i > Len(results) THEN Ok(m, Arr(vals))
  ELSE LET result == m.heap[results[i].n]
       IN IF result.isErr THEN Return(m, results[i])
          ELSE allFrom(m, results, i + 1, Append(vals, result.val))
all(m, results) == allFrom(m, results, 1, <<>>)

\* An any that collects the errors with unshift instead of push.
RECURSIVE anyFrom_unshift(_, _, _, _)
anyFrom_unshift(m, results, i, errs) ==
  IF i > Len(results) THEN Err(m, Arr(errs))
  ELSE LET result == m.heap[results[i].n]
       IN IF result.isOk THEN Return(m, results[i])
          ELSE anyFrom_unshift(m, results, i + 1, <<result.err>> \o errs)
\* Result.any: the loop from element i on, errs holding the errors pushed so far.
RECURSIVE anyFrom(_, _, _, _)
anyFrom(m, results, i, errs) ==
  IF i > Len(results) THEN Err(m, Arr(errs))
  ELSE LET result == m.heap[results[i].n]
       IN IF result.isOk THEN Return(m, results[i])
          ELSE anyFrom(m, results, i + 1, Append(errs, result.err))
any(m, results) == anyFrom(m, results, 1, <<>>)

\* A wrap that hands on a Result fn returns or raises instead of wrapping it.
wrap_flatten(m, fn) ==
  LET c == Invoke(m, "fn", fn, <<>>)
      got == IF c.raised THEN c.exc ELSE c.ret
  IN IF got.t = "Result" THEN Return(c, got)
     ELSE IF c.raised THEN Err(c, c.exc) ELSE Ok(c, c.ret)
\* Result.wrap: fn is the behaviour of the zero-argument function.
wrap(m, fn) ==
  LET c == Invoke(m, "fn", fn, <<>>)
  IN IF c.raised THEN Err(c, c.exc) ELSE Ok(c, c.ret)

\* What folder(acc, curr, index) does: a folder stops at the elements equal
\* to folder.stop, with an Err or by raising, and adds the others up.
FolderBeh(folder, acc, curr, index) ==
  IF Key(curr) # folder.stop THEN Beh("ok", Num((acc + Key(curr)) % (MaxVal + 1)))
  ELSE IF folder.kind = "err" THEN Beh("err", Str("stop"))
  ELSE Beh("throw", Str("boom"))
\* The closure acc => folder(acc, curr, index) that fold hands to bind.
Closure(folder, curr, index) ==
  [name |-> "folder",
   tbl |-> [acc \in Vals |-> FolderBeh(folder, acc, curr, index)],
   extra |-> <<curr, Num(index)>>]

\* Result.fold: list.reduce from element i on, accResult being the reduction so far.
RECURSIVE reduceFrom(_, _, _, _)
RECURSIVE reduceFrom_noStop(_, _, _, _)
\* A fold that runs the folder on the payload of accResult, Err or not.
reduceFrom_noStop(m, list, i, folder) ==
  IF i > Len(list) THEN m
  ELSE LET accResult == m.heap[m.ret.n]
           step == Call(m, Closure(folder, list[i], i - 1),
                        IF accResult.isOk THEN accResult.val ELSE accResult.err)
       IN IF step.raised THEN step ELSE reduceFrom_noStop(step, list, i + 1, folder)
reduceFrom(m, list, i, folder) ==
  IF i > Len(list) THEN m
  ELSE LET step == bind(m, m.ret.n, Closure(folder, list[i], i - 1))
       IN IF step.raised THEN step ELSE reduceFrom(step, list, i + 1, folder)
fold(m, list, init, folder) == reduceFrom(Ok(m, init), list, 1, folder)

---------------------------------------------------------------------------
(* The inputs a caller may supply. A method invokes its callback at most   *)
(* once, on the receiver's payload, so a callback is drawn by what it does *)
(* on its argument; the folder of fold, invoked once per element, is drawn *)
(* as a function of the element.                                           *)

SeqsUpTo(S, n) == UNION {[1..k -> S] : k \in 0..n}
Fn(name, beh) == [name |-> name, tbl |-> [x \in Vals |-> beh], extra |-> <<>>]

\* Functions that return a number, return their argument, or raise.
ValueBehs == {Beh("ret", v) : v \in Nums} \cup {Beh("arg", Undefined), Beh("throw", Str("boom"))}
\* Predicates, which may raise.
PredBehs == {Beh("ret", Bool(TRUE)), Beh("ret", Bool(FALSE)), Beh("throw", Str("boom"))}
\* Functions that return a new Result, or raise.
ResultBehs == {Beh(b, v) : b \in {"ok", "err"}, v \in Nums} \cup {Beh("throw", Str("boom"))}
\* The handlers of match.
HandlerBehs == {Beh("ret", v) : v \in Nums} \cup {Beh("throw", Str("boom"))}
\* The zero-argument functions handed to wrap; they may return or raise a Result.
Thunks(h) == {Beh(b, v) : b \in {"ret", "throw"}, v \in Nums \cup {Ref(p) : p \in 1..Len(h)}}
             \cup {Beh(b, Num(0)) : b \in {"ok", "err", "throwOk", "throwErr"}}
\* The folders: stop at the elements equal to stop (at none when stop = -1).
Folders == {[stop |-> -1, kind |-> "err"], [stop |-> 0, kind |-> "throw"]} \cup [stop : Vals, kind : {"err"}]

---------------------------------------------------------------------------
(* The state: the heap of Results, and the operation the caller has just   *)
(* run (op = "none" between operations) with its receiver, its arguments   *)
(* and its outcome.                                                        *)

VARIABLES heap, op, self, list, arg, ret, raised, exc, calls
vars == <<heap, op, self, list, arg, ret, raised, exc, calls>>

Init ==
  /\ heap = <<>>
  /\ op = "none"
  /\ self = 0
  /\ list = <<>>
  /\ arg = Undefined
  /\ ret = Undefined
  /\ raised = FALSE
  /\ exc = Undefined
  /\ calls = <<>>

\* The operation name ran on receiver this with arguments lst and a, and ended as m.
Commit(name, this, lst, a, m) ==
  /\ heap' = m.heap
  /\ op' = name
  /\ self' = this
  /\ list' = lst
  /\ arg' = a
  /\ ret' = m.ret
  /\ raised' = m.raised
  /\ exc' = m.exc
  /\ calls' = m.calls

Idle == op = "none" /\ Len(heap) <= MaxHeap
Refs == 1..Len(heap)
RefLists == SeqsUpTo({Ref(p) : p \in Refs}, MaxLen)

DoOk == Idle /\ \E v \in Nums : Commit("Ok", 0, <<>>, v, Ok(Start(heap), v))
DoErr == Idle /\ \E e \in Nums : Commit("Err", 0, <<>>, e, Err(Start(heap), e))

DoIsOkAnd == Idle /\ \E r \in Refs, b \in PredBehs :
  Commit("isOkAnd", r, <<>>, Undefined, isOkAnd(Start(heap), r, Fn("fn", b)))
DoIsErrAnd == Idle /\ \E r \in Refs, b \in PredBehs :
  Commit("isErrAnd", r, <<>>, Undefined, isErrAnd(Start(heap), r, Fn("fn", b)))
DoUnwrap == Idle /\ \E r \in Refs :
  Commit("unwrap", r, <<>>, Undefined, unwrap(Start(heap), r))
DoExpect == Idle /\ \E r \in Refs, msg \in {Str(s) : s \in Msgs} \cup {Undefined} :
  Commit("expect", r, <<>>, msg, expect(Start(heap), r, msg))
DoUnwrapOr == Idle /\ \E r \in Refs, def \in Nums :
  Commit("unwrapOr", r, <<>>, def, unwrapOr(Start(heap), r, def))
DoMatch == Idle /\ \E r \in Refs, b1 \in HandlerBehs, b2 \in HandlerBehs :
  Commit("match", r, <<>>, Undefined, match(Start(heap), r, Fn("onOk", b1), Fn("onErr", b2)))
DoUnion == Idle /\ \E r \in Refs :
  Commit("union", r, <<>>, Undefined, union(Start(heap), r))
DoMap == Idle /\ \E r \in Refs, b \in ValueBehs :
  Commit("map", r, <<>>, Undefined, map(Start(heap), r, Fn("fn", b)))
DoMapErr == Idle /\ \E r \in Refs, b \in ValueBehs :
  Commit("mapErr", r, <<>>, Undefined, mapErr(Start(heap), r, Fn("fn", b)))
DoBind == Idle /\ \E r \in Refs, b \in ResultBehs :
  Commit("bind", r, <<>>, Undefined, bind(Start(heap), r, Fn("fn", b)))
DoBindErr == Idle /\ \E r \in Refs, b \in ResultBehs :
  Commit("bindErr", r, <<>>, Undefined, bindErr(Start(heap), r, Fn("fn", b)))
DoTap == Idle /\ \E r \in Refs, b \in ValueBehs :
  Commit("tap", r, <<>>, Undefined, tap(Start(heap), r, Fn("fn", b)))
DoTapErr == Idle /\ \E r \in Refs, b \in ValueBehs :
  Commit("tapErr", r, <<>>, Undefined, tapErr(Start(heap), r, Fn("fn", b)))

DoAll == Idle /\ \E rs \in RefLists : Commit("all", 0, rs, Undefined, all(Start(heap), rs))
DoAny == Idle /\ \E rs \in RefLists : Commit("any", 0, rs, Undefined, any(Start(heap), rs))
DoWrap == Idle /\ \E fn \in Thunks(heap) :
  Commit("wrap", 0, <<>>, Undefined, wrap(Start(heap), fn))
DoFold == Idle /\ Len(heap) <= MaxFoldHeap /\ \E l \in SeqsUpTo(Nums, MaxLen), init \in Nums, folder \in Folders :
  Commit("fold", 0, l, init, fold(Start(heap), l, init, folder))

\* The caller goes on to its next statement: the outcome is dropped, the
\* Results constructed so far stay.
Resume ==
  /\ op # "none"
  /\ op' = "none"
  /\ self' = 0
  /\ list' = <<>>
  /\ arg' = Undefined
  /\ ret' = Undefined
  /\ raised' = FALSE
  /\ exc' = Undefined
  /\ calls' = <<>>
  /\ UNCHANGED heap

Next ==
  \/ DoOk \/ DoErr
  \/ DoIsOkAnd \/ DoIsErrAnd
  \/ DoUnwrap \/ DoExpect \/ DoUnwrapOr
  \/ DoMatch \/ DoUnion
  \/ DoMap \/ DoMapErr \/ DoBind \/ DoBindErr \/ DoTap \/ DoTapErr
  \/ DoAll \/ DoAny \/ DoWrap \/ DoFold
  \/ Resume

Spec == Init /\ [][Next]_vars

---------------------------------------------------------------------------
(* What the properties read off a state.                                   *)

\* The Result a reference denotes, its variant and its payload.
Obj(v) == heap[v.n]
IsResult(v) == v.t = "Result" /\ v.n \in 1..Len(heap)
IsOkRes(v) == IsResult(v) /\ Obj(v).cls = "ResultOk"
IsErrRes(v) == IsResult(v) /\ Obj(v).cls = "ResultErr"
Payload(v) == IF Obj(v).cls = "ResultOk" THEN Obj(v).val ELSE Obj(v).err
Min(S) == CHOOSE x \in S : \A y \in S : x <= y

\* The operation ended by returning, having invoked no caller-supplied function.
Quiet == ~raised /\ calls = <<>>
\* The operation ended the way the last caller-supplied function it invoked did.
LastCallRaised == calls # <<>> /\ calls[Len(calls)].out = "throw" /\ exc = calls[Len(calls)].v

---------------------------------------------------------------------------
\* C1: Result.all returns the Err of smallest index, the very Result of the
\* list, when the list holds an Err; otherwise it returns an Ok whose value is
\* the array of the elements' values, one per element and in their order.
C1_AllFirstErr ==
  op = "all" =>
    LET errs == {i \in 1..Len(list) : IsErrRes(list[i])}
    IN /\ Quiet
       /\ errs # {} => ret = list[Min(errs)]
       /\ errs = {} =>
            /\ IsOkRes(ret)
            /\ Payload(ret).t = "Array"
            /\ Len(Payload(ret).a) = Len(list)
            /\ \A i \in 1..Len(list) : Payload(ret).a[i] = Obj(list[i]).val

\* all was given two different Errs holding different errors and returned the first.
C1_Witness ==
  /\ op = "all" /\ Len(list) = 2
  /\ IsErrRes(list[1]) /\ IsErrRes(list[2])
  /\ Payload(list[1]) # Payload(list[2])
  /\ ret = list[1]

\* C2: Result.any returns the Ok of smallest index, the very Result of the
\* list, when the list holds an Ok; otherwise it returns an Err whose error is
\* the array of the elements' errors, one per element and in their order.
C2_AnyFirstOk ==
  op = "any" =>
    LET oks == {i \in 1..Len(list) : IsOkRes(list[i])}
    IN /\ Quiet
       /\ oks # {} => ret = list[Min(oks)]
       /\ oks = {} =>
            /\ IsErrRes(ret)
            /\ Payload(ret).t = "Array"
            /\ Len(Payload(ret).a) = Len(list)
            /\ \A i \in 1..Len(list) : Payload(ret).a[i] = Obj(list[i]).err

\* any was given two Errs holding different errors and returned Err of both, in order.
C2_Witness ==
  /\ op = "any" /\ Len(list) = 2
  /\ IsErrRes(list[1]) /\ IsErrRes(list[2])
  /\ Payload(list[1]) # Payload(list[2])
  /\ IsErrRes(ret)
  /\ Payload(ret).a = <<Payload(list[1]), Payload(list[2])>>

\* The accumulator handed to the k-th invocation of the folder.
AccAt(k) == IF k = 1 THEN arg ELSE Payload(calls[k - 1].v)

\* C3: a fold whose folder does not raise invokes the folder left to right as
\* folder(acc, list[i], i), acc starting at init and going on as the value of
\* the Ok returned last; the first Err an invocation returns is what fold
\* returns, and no invocation follows it; with no Err the folder is invoked
\* once per element and fold returns Ok of the last accumulator.
C3_FoldStopsAtFirstErr ==
  (op = "fold" /\ ~raised) =>
    LET n == Len(calls)
    IN /\ n <= Len(list)
       /\ \A k \in 1..n :
            /\ calls[k].fn = "folder"
            /\ calls[k].out = "return"
            /\ calls[k].args = <<AccAt(k), list[k], Num(k - 1)>>
            /\ k < n => IsOkRes(calls[k].v)
       /\ IF n > 0 /\ IsErrRes(calls[n].v)
            THEN ret = calls[n].v
            ELSE /\ n = Len(list)
                 /\ IsOkRes(ret)
                 /\ Payload(ret) = AccAt(n + 1)

\* fold stopped at the first of two elements: the folder ran once and its Err came back.
C3_Witness ==
  /\ op = "fold" /\ Len(list) = 2 /\ Len(calls) = 1
  /\ IsErrRes(ret) /\ ret = calls[1].v

\* C4: Result.wrap invokes fn once and never raises; it returns a new Ok
\* holding what fn returned, or a new Err holding what fn raised, and a Result
\* that fn returned or raised is held as that payload, not handed on.
C4_WrapOneLevel ==
  op = "wrap" =>
    /\ ~raised
    /\ Len(calls) = 1
    /\ calls[1].args = <<>>
    /\ IsResult(ret)
    /\ ret # calls[1].v
    /\ Payload(ret) = calls[1].v
    /\ IsOkRes(ret) <=> calls[1].out = "return"

\* fn raised an Err, and wrap returned an Err holding that Err.
C4_Witness ==
  /\ op = "wrap" /\ calls[1].out = "throw"
  /\ IsErrRes(calls[1].v)
  /\ IsErrRes(ret) /\ IsErrRes(Payload(ret))

\* C5: on an Ok, unwrap, expect, unwrapOr and union return the value; on an
\* Err, unwrap raises the held error itself, expect raises an Error whose
\* message is msg ("" without one) and which holds nothing of the error,
\* unwrapOr returns the default and union returns the error.
C5_Extraction ==
  (op \in {"unwrap", "expect", "unwrapOr", "union"}) =>
    /\ calls = <<>>
    /\ Obj(Ref(self)).cls = "ResultOk" => (~raised /\ ret = Obj(Ref(self)).val)
    /\ Obj(Ref(self)).cls = "ResultErr" =>
         /\ op = "unwrap" => (raised /\ exc = Obj(Ref(self)).err)
         /\ op = "expect" =>
              /\ raised
              /\ exc.t = "Error" /\ exc.n = 0 /\ exc.a = <<>>
              /\ exc.m = (IF arg.t = "string" THEN arg.m ELSE "")
              /\ exc # Obj(Ref(self)).err
         /\ op = "unwrapOr" => (~raised /\ ret = arg)
         /\ op = "union" => (~raised /\ ret = Obj(Ref(self)).err)

\* expect with a message ran on an Err.
C5_Witness ==
  /\ op = "expect" /\ IsErrRes(Ref(self))
  /\ arg = Str("must not fail") /\ raised

\* C6: map, bind and tap on an Err, and mapErr, bindErr and tapErr on an Ok,
\* invoke no function and return a Result equal to the receiver; isOkAnd on an
\* Err and isErrAnd on an Ok invoke no function and return false.
C6_ShortCircuit ==
  LET onErr == op \in {"map", "bind", "tap"} /\ IsErrRes(Ref(self))
      onOk == op \in {"mapErr", "bindErr", "tapErr"} /\ IsOkRes(Ref(self))
      pred == \/ op = "isOkAnd" /\ IsErrRes(Ref(self))
              \/ op = "isErrAnd" /\ IsOkRes(Ref(self))
  IN /\ (onErr \/ onOk) => (Quiet /\ IsResult(ret) /\ Obj(ret) = Obj(Ref(self)))
     /\ pred => (Quiet /\ ret = Bool(FALSE))

\* map ran on an Err.
C6_Witness == op = "map" /\ IsErrRes(Ref(self)) /\ ~raised

\* C7: match invokes one handler, once: onOk with the value of an Ok, onErr
\* with the error of an Err; and it ends the way that handler ended, returning
\* what the handler returned.
C7_MatchOneHandler ==
  op = "match" =>
    /\ Len(calls) = 1
    /\ calls[1].fn = (IF IsOkRes(Ref(self)) THEN "onOk" ELSE "onErr")
    /\ calls[1].args = <<Payload(Ref(self))>>
    /\ calls[1].out = "return" => (~raised /\ ret = calls[1].v)
    /\ calls[1].out = "throw" => (raised /\ exc = calls[1].v)

\* match ran on an Err and returned what onErr returned.
C7_Witness ==
  /\ op = "match" /\ IsErrRes(Ref(self))
  /\ ~raised /\ calls[1].fn = "onErr" /\ ret = calls[1].v

\* The total functions of numbers, as callbacks, and their composition.
TotalFns == [Vals -> Vals]
AsFn(t) == [name |-> "fn", tbl |-> [x \in Vals |-> Beh("ret", Num(t[x]))], extra |-> <<>>]
Compose(g, f) == [x \in Vals |-> g[f[x]]]
\* The Result an evaluation returned.
Returned(m) == m.heap[m.ret.n]

\* C8: (functor law) for the Ok(v) just constructed and all total f and g,
\* Ok(v).map(f).map(g) equals Ok(v).map(x => g(f(x))); (identity law) a map
\* whose function returned its argument, and any map on an Err, returns a
\* Result of the receiver's variant and payload; (left identity) bind on an
\* Ok(v) returns the very Result f(v) returned, not a Result holding it.
C8_MapBindLaws ==
  /\ (op = "Ok" /\ IsOkRes(ret)) =>
       \A f \in TotalFns, g \in TotalFns :
         LET once == map(Start(heap), ret.n, AsFn(f))
             twice == map(once, once.ret.n, AsFn(g))
             fused == map(Start(heap), ret.n, AsFn(Compose(g, f)))
         IN /\ ~twice.raised /\ ~fused.raised
            /\ Returned(twice) = Returned(fused)
            /\ Returned(fused) = ResultOk(Num(g[f[Key(arg)]]))
  /\ (op = "map" /\ ~raised /\ (calls = <<>> \/ calls[1].v = calls[1].args[1])) =>
       /\ IsResult(ret)
       /\ Obj(ret).cls = Obj(Ref(self)).cls
       /\ Payload(ret) = Payload(Ref(self))
  /\ (op = "bind" /\ IsOkRes(Ref(self)) /\ ~raised) =>
       /\ Len(calls) = 1
       /\ calls[1].args = <<Payload(Ref(self))>>
       /\ ret = calls[1].v

\* bind ran on an Ok and returned the Err its function returned.
C8_Witness ==
  /\ op = "bind" /\ IsOkRes(Ref(self))
  /\ ~raised /\ IsErrRes(ret) /\ ret = calls[1].v

Combinators == {"map", "mapErr", "bind", "bindErr", "tap", "tapErr"}

\* C9: map, mapErr, bind, bindErr, tap and tapErr raise only what their
\* callback raised, and otherwise return a Result; and an operation that
\* raises what no callback raised is an unwrap or an expect on an Err.
C9_Propagation ==
  /\ (op \in Combinators /\ raised) => LastCallRaised
  /\ (op \in Combinators /\ ~raised) => IsResult(ret)
  /\ (raised /\ ~LastCallRaised) => (op \in {"unwrap", "expect"} /\ IsErrRes(Ref(self)))

\* tapErr ended abnormally on an Err, raising what its callback raised.
C9_Witness == op = "tapErr" /\ raised /\ LastCallRaised

\* A Result is of one variant, with its tags and its one payload to match.
WellFormed(o) ==
  /\ o.isOk # o.isErr
  /\ o.isOk <=> o.cls = "ResultOk"
  /\ o.isOk => (o.val # Undefined /\ o.err = Undefined)
  /\ o.isErr => (o.err # Undefined /\ o.val = Undefined)

\* C10: no step changes a Result that exists, and every Result that exists
\* after a step is of exactly one variant with exactly one payload.
C10_Immutable ==
  [][/\ \A p \in DOMAIN heap : p \in DOMAIN heap' /\ heap'[p] = heap[p]
     /\ \A p \in DOMAIN heap' : WellFormed(heap'[p])]_vars

\* tap ran its callback on an Ok, which returned something else than the value.
C10_Witness ==
  /\ op = "tap" /\ IsOkRes(Ref(self)) /\ ~raised
  /\ Len(calls) = 1 /\ calls[1].v # Payload(Ref(self))

====
